---- MODULE Spec2Model ----
(***************************************************************************)
(* The book catalog application of src/server.py as a state machine.       *)
(*                                                                         *)
(* State: the two tables of the database (book, users), the session cookie *)
(* each client holds (Flask-Login keeps the logged-in user's id in it) and *)
(* the response to the last request.  One action per route handler; a      *)
(* handler runs to completion within one request, so an action is the      *)
(* whole handler, its commit or its failure included.                      *)
(*                                                                         *)
(* Strings are TLA+ strings, except titles, which are sequences of         *)
(* character codes so that ORDER BY can compare them, and password         *)
(* columns, which are the sequence of the "$"-separated parts of the       *)
(* stored string ("method$salt$hash" has three, a plaintext has one).      *)
(* Floats are integers counting tenths.                                    *)
(***************************************************************************)
EXTENDS Integers, Sequences, FiniteSets, TLC

VARIABLES
    books,      \* table book: sequence of rows, row i has id i
    users,      \* table users: sequence of rows, row i has id i
    session,    \* per client: the user id in its session cookie, or Anonymous
    resp,       \* the response to the last request, with the request's salient fields
    plain       \* history: plain[i] is the plaintext given at the registration of user i

vars == <<books, users, session, resp, plain>>

---------------------------------------------------------------------------
(* Bounds of the model *)

MaxBooks == 3
NumClients == 1

Clients == 1..NumClients

---------------------------------------------------------------------------
(* Values *)

\* Python's None
PyNone == "<None>"

\* What Flask-Login's current_user is when the session cookie holds no user id
Anonymous == 0

\* Titles as character codes: "Zeta", "Alpha", "Mono", and "Al", a prefix of "Alpha"
Zeta == <<90, 101, 116, 97>>
Alpha == <<65, 108, 112, 104, 97>>
Mono == <<77, 111, 110, 111>>
Al == <<65, 108>>
Titles == {Zeta, Alpha, Mono, Al}

\* The author query_url asks for, and another one
selected_author == "Meauthor"
Authors == {selected_author, "Other"}

\* What a client may send as a rating, and the float each numeric literal denotes
RatingInputs == {"9.3", "2.5", "abc"}
FloatLiterals == ("9.3" :> 93) @@ ("2.5" :> 25)

\* The ratings stored rows can have
Ratings == {FloatLiterals[v] : v \in DOMAIN FloatLiterals}

\* The rating of the commented-out sample row ('9.3')
SampleRating == FloatLiterals["9.3"]

\* What a client may send in the registration and login forms
Emails == {"ann@x.io", ""}
Names == {"Ann"}
Passwords == {"ab", "secret"}
Salts == {"s1", "s2"}
DefaultMessage == "This is a default message"

---------------------------------------------------------------------------
(* The database *)

\* Book(db.Model): a row of table book
BookRow(id, title, author, rating) ==
    [id |-> id, title |-> title, author |-> author, rating |-> rating]

\* User(UserMixin, db.Model): a row of table users
UserRow(id, email, password, name) ==
    [id |-> id, email |-> email, password |-> password, name |-> name]

\* db.session.get(Model, id) / db.get_or_404(Model, id): the rows with that primary key
HasRow(table, id) == id \in 1..Len(table)

\* The catalogs an administrator can have inserted: up to n rows, title being
\* unique=True
Catalogs(n) ==
    UNION { { [i \in 1..k |-> BookRow(i, ts[i], as[i], rs[i])] :
                ts \in {s \in [1..k -> Titles] : \A i, j \in 1..k : s[i] = s[j] => i = j},
                as \in [1..k -> Authors],
                rs \in [1..k -> Ratings] } : k \in 0..n }

\* Float.bind_processor on SQLite: float(value) of a bound parameter, None kept
IsFloatLiteral(v) == v \in DOMAIN FloatLiterals
ToFloat(v) == FloatLiterals[v]

---------------------------------------------------------------------------
(* Password hashing (werkzeug.security) *)

\* The PBKDF2-HMAC-SHA256 digest of a password under a salt, as an ideal hash:
\* distinct (salt, password) pairs have distinct digests
Pbkdf2(salt, password) == "pbkdf2(" \o salt \o "," \o password \o ")"

\* A registration that stores the password as it was typed
store_plaintext(password, salt) == <<password>>

\* generate_password_hash(password, method='pbkdf2:sha256', salt_length=8):
\* the string "method$salt$hash", here its three parts
generate_password_hash(password, salt) ==
    <<"pbkdf2:sha256", salt, Pbkdf2(salt, password)>>

\* check_password_hash(pwhash, password): split pwhash at "$" into method, salt
\* and hash (False when it has fewer parts), hash the password again, compare
check_password_hash(pwhash, password) ==
    /\ Len(pwhash) = 3
    /\ pwhash[1] = "pbkdf2:sha256"
    /\ Pbkdf2(pwhash[2], password) = pwhash[3]

---------------------------------------------------------------------------
(* Sessions (flask_login) *)

\* load_user(user_id): db.get_or_404(User, user_id); current_user is anonymous
\* when the cookie holds no user id
CurrentUser(us, sid) ==
    IF sid = Anonymous THEN "anonymous"
    ELSE IF HasRow(us, sid) THEN "user"
    ELSE "404"

\* login_user(user): the cookie now holds the user's id
login_user(user) == user.id

\* logout_user(): the user id is popped from the cookie
logout_user == Anonymous

---------------------------------------------------------------------------
(* Responses *)

\* The fields of a request the properties speak about: None (0 for the book id)
\* where the request does not carry the field
NoReq == [email |-> PyNone, password |-> PyNone, message |-> PyNone, bookId |-> 0,
          rating |-> PyNone]

\* dict.get(name, default) on a form or a query string
FieldData(form, name, default) == IF name \in DOMAIN form THEN form[name] ELSE default

Response(op, c, method, status, view, flash, data, req) ==
    [op |-> op, client |-> c, method |-> method, status |-> status, view |-> view,
     flash |-> flash, data |-> data, req |-> req]

\* abort(code) and uncaught exceptions: an error page, no template of the application
Abort(op, c, method, status, why, req) ==
    Response(op, c, method, status, why, "", <<>>, req)

NoResponse == Response("none", 0, "", 0, "", "", <<>>, NoReq)

---------------------------------------------------------------------------
(* ORDER BY Book.title: SQLite's BINARY collation compares the bytes, a proper
   prefix sorting first *)

RECURSIVE TitleLess(_, _)
TitleLess(a, b) ==
    IF a = <<>> THEN b # <<>>
    ELSE IF b = <<>> THEN FALSE
    ELSE IF Head(a) # Head(b) THEN Head(a) < Head(b)
    ELSE TitleLess(Tail(a), Tail(b))

\* The rows of a set in ascending order of title
RECURSIVE OrderByTitle(_)
OrderByTitle(rows) ==
    IF rows = {} THEN <<>>
    ELSE LET first == CHOOSE r \in rows :
                        \A q \in rows : q = r \/ ~TitleLess(q.title, r.title)
         IN <<first>> \o OrderByTitle(rows \ {first})

\* db.select(Book): the rows of the table
Rows(t) == {t[i] : i \in 1..Len(t)}

\* db.select(Book).where(Book.author == a), in rowid order
RECURSIVE WhereAuthor(_, _)
WhereAuthor(t, a) ==
    IF t = <<>> THEN <<>>
    ELSE (IF Head(t).author = a THEN <<Head(t)>> ELSE <<>>) \o WhereAuthor(Tail(t), a)

---------------------------------------------------------------------------
(* The route handlers: each is a function of the tables, the requester's
   session and the request, giving the new tables, the new session and the
   response.  A handler that raises rolls its transaction back. *)

Result(bs, us, sid, r) == [books |-> bs, users |-> us, sid |-> sid, resp |-> r]

\* A view whose @login_required decorator is missing
login_not_required(us, sid) == TRUE

\* @login_required: no login_view is configured, so an anonymous request is
\* answered with abort(401) before the view function runs
LoginRequired(us, sid) == CurrentUser(us, sid) = "user"

\* A listing whose query has no order_by: the rows come in rowid order
books_page_unordered(bs, us, sid, c) ==
    Result(bs, us, sid, Response("books", c, "GET", 200, "books.html", "", bs, NoReq))

\* GET /books
books_page(bs, us, sid, c) ==
    Result(bs, us, sid,
           Response("books", c, "GET", 200, "books.html", "", OrderByTitle(Rows(bs)), NoReq))

\* A users table whose email column is not unique
email_not_unique(us, email) == FALSE

\* email = db.Column(db.String(100), unique=True): an INSERT of a stored email fails
EmailTaken(us, email) == \E i \in 1..Len(us) : us[i].email = email

\* GET, POST /register.  The salt is the one generate_password_hash draws.
register_page(bs, us, sid, c, method, form, salt) ==
    IF method = "POST"
    THEN IF ~({"email", "name", "password"} \subseteq DOMAIN form)
         THEN \* request.form[...] raises BadRequestKeyError
              Result(bs, us, sid,
                     Abort("register", c, method, 400, "BadRequestKeyError",
                           [NoReq EXCEPT !.email = FieldData(form, "email", PyNone),
                                         !.password = FieldData(form, "password", PyNone)]))
         ELSE LET new_email == form["email"]
                  new_name == form["name"]
                  new_password == form["password"]
                  hash_and_salted_password == generate_password_hash(new_password, salt)
                  new_user == UserRow(Len(us) + 1, new_email, hash_and_salted_password, new_name)
                  req == [NoReq EXCEPT !.email = new_email, !.password = new_password]
              IN IF EmailTaken(us, new_email)
                 THEN \* db.session.commit() raises IntegrityError
                      Result(bs, us, sid, Abort("register", c, method, 500, "IntegrityError", req))
                 ELSE Result(bs, Append(us, new_user), login_user(new_user),
                             Response("register", c, method, 302, "redirect:/books", "", <<>>, req))
    ELSE Result(bs, us, sid,
                Response("register", c, method, 200, "register.html", "", <<>>, NoReq))

\* An edit that answers without db.session.commit(): the new rating is lost
commit_forgotten(bs, id, value) ==
    IF value = PyNone THEN [outcome |-> "IntegrityError", books |-> bs]
    ELSE IF ~IsFloatLiteral(value) THEN [outcome |-> "StatementError", books |-> bs]
    ELSE [outcome |-> "ok", books |-> bs]

\* Book.rating = value; db.session.commit(): the UPDATE of one row.  The outcome
\* is "ok" with the new table, or the exception commit raises.
CommitRating(bs, id, value) ==
    IF value = PyNone
    THEN [outcome |-> "IntegrityError", books |-> bs]       \* rating is nullable=False
    ELSE IF ~IsFloatLiteral(value)
    THEN [outcome |-> "StatementError", books |-> bs]       \* float(value) raises ValueError
    ELSE [outcome |-> "ok", books |-> [bs EXCEPT ![id].rating = ToFloat(value)]]

\* GET, POST /edit
edit_page(bs, us, sid, c, method, params) ==
    IF ~LoginRequired(us, sid)
    THEN Result(bs, us, sid,
                Abort("edit", c, method, IF CurrentUser(us, sid) = "404" THEN 404 ELSE 401,
                      "Unauthorized", NoReq))
    ELSE IF "id" \notin DOMAIN params
    THEN Result(bs, us, sid, Abort("edit", c, method, 400, "BadRequestKeyError", NoReq))
    ELSE LET book_id == params["id"]
             req == [NoReq EXCEPT !.bookId = book_id]
         IN IF ~HasRow(bs, book_id)
            THEN Result(bs, us, sid, Abort("edit", c, method, 404, "NotFound", req))
            ELSE IF method = "POST"
            THEN IF "rating" \notin DOMAIN params
                 THEN Result(bs, us, sid, Abort("edit", c, method, 400, "BadRequestKeyError", req))
                 ELSE LET done == CommitRating(bs, book_id, params["rating"])
                      IN IF done.outcome = "ok"
                         THEN Result(done.books, us, sid,
                                     Response("edit", c, method, 302, "redirect:/books", "", <<>>,
                                              [req EXCEPT !.rating = params["rating"]]))
                         ELSE Result(bs, us, sid, Abort("edit", c, method, 500, done.outcome, req))
            ELSE Result(bs, us, sid,
                        Response("edit", c, method, 200, "edit.html", "", <<bs[book_id]>>, req))

\* wtforms.validators.Email(): the address has a local part, an "@" and a domain
HasEmailSyntax(e) == e \in {"ann@x.io"}

\* LoginForm.validate_on_submit(): a POST whose fields pass their validators
\* (email: DataRequired, Email; password: DataRequired, Length(min=3);
\* message: DataRequired).  A field the POST does not carry keeps its default.
validate_on_submit(method, form) ==
    /\ method = "POST"
    /\ FieldData(form, "email", "") # ""
    /\ HasEmailSyntax(FieldData(form, "email", ""))
    /\ FieldData(form, "password", "") # ""
    /\ Len(FieldData(form, "password", "")) >= 3
    /\ FieldData(form, "message", DefaultMessage) # ""

\* db.select(User).where(User.email == form_email), result.scalar(): the ids found
UsersByEmail(us, email) == {i \in 1..Len(us) : us[i].email = email}

\* GET, POST /login
login_page(bs, us, sid, c, method, form) ==
    LET req == IF method = "POST"
               THEN [NoReq EXCEPT !.email = FieldData(form, "email", PyNone),
                                  !.password = FieldData(form, "password", PyNone),
                                  !.message = FieldData(form, "message", DefaultMessage)]
               ELSE NoReq
        form_page(flash) == Response("login", c, method, 200, "login.html", flash, <<>>, req)
    IN IF validate_on_submit(method, form)
       THEN LET form_email == form["email"]
                form_password == form["password"]
                found == UsersByEmail(us, form_email)
            IN IF found # {}
               THEN LET retrieved_user == us[CHOOSE i \in found : TRUE]
                    IN IF check_password_hash(retrieved_user.password, form_password)
                       THEN Result(bs, us, login_user(retrieved_user),
                                   Response("login", c, method, 200, "success.html",
                                            "", <<>>, req))
                       ELSE Result(bs, us, sid,
                                   form_page("Password incorrect, please try again."))
               ELSE Result(bs, us, sid,
                           form_page("That email does not exist, please try again."))
       ELSE Result(bs, us, sid, form_page(""))

\* A logout that renders its page without logout_user()
logout_keeps_session(bs, us, sid, c) ==
    IF CurrentUser(us, sid) # "user"
    THEN Result(bs, us, sid, Abort("logout", c, "GET", 401, "Unauthorized", NoReq))
    ELSE Result(bs, us, sid,
                Response("logout", c, "GET", 200, "success.html", "", <<>>, NoReq))

\* GET /logout
logout(bs, us, sid, c) ==
    IF ~LoginRequired(us, sid)
    THEN Result(bs, us, sid,
                Abort("logout", c, "GET", IF CurrentUser(us, sid) = "404" THEN 404 ELSE 401,
                      "Unauthorized", NoReq))
    ELSE Result(bs, us, logout_user,
                Response("logout", c, "GET", 200, "success.html", "", <<>>, NoReq))

\* bool(result.scalars()): a ScalarResult defines neither __bool__ nor __len__,
\* so it is true whatever rows it holds
Truthy(all_books) == TRUE

\* GET /query
query_url(bs, us, sid, c) ==
    LET all_books == WhereAuthor(bs, selected_author)
    IN IF Truthy(all_books)
       THEN Result(bs, us, sid,
                   Response("query", c, "GET", 200, "json:books", "", all_books, NoReq))
       ELSE Result(bs, us, sid,
                   Response("query", c, "GET", 404, "json:error", "", <<>>, NoReq))

\* An edit-uri that inserts the row it does not find
edit_api_uri_upsert(bs, us, sid, c, book_id, args) ==
    LET new_rating == FieldData(args, "new_rating", PyNone)
        req == [NoReq EXCEPT !.bookId = book_id, !.rating = new_rating]
        row == BookRow(Len(bs) + 1, Al, selected_author, SampleRating)
        done == CommitRating(IF HasRow(bs, book_id) THEN bs ELSE Append(bs, row),
                             IF HasRow(bs, book_id) THEN book_id ELSE Len(bs) + 1, new_rating)
    IN IF done.outcome = "ok"
       THEN Result(done.books, us, sid,
                   Response("edit_api_uri", c, "PATCH", 200, "json:response", "", <<>>, req))
       ELSE Result(bs, us, sid, Abort("edit_api_uri", c, "PATCH", 500, done.outcome,
                                      [req EXCEPT !.rating = PyNone]))

\* PATCH /edit-uri/<int:book_id>
edit_api_uri(bs, us, sid, c, book_id, args) ==
    LET new_rating == FieldData(args, "new_rating", PyNone)
        req == [NoReq EXCEPT !.bookId = book_id]
    IN IF HasRow(bs, book_id)
       THEN LET done == CommitRating(bs, book_id, new_rating)
            IN IF done.outcome = "ok"
               THEN Result(done.books, us, sid,
                           Response("edit_api_uri", c, "PATCH", 200, "json:response", "", <<>>,
                                    [req EXCEPT !.rating = new_rating]))
               ELSE Result(bs, us, sid, Abort("edit_api_uri", c, "PATCH", 500, done.outcome, req))
       ELSE Result(bs, us, sid,
                   Response("edit_api_uri", c, "PATCH", 404, "json:error", "", <<>>, req))

---------------------------------------------------------------------------
(* Requests *)

\* The forms a client can post to /register; a field may be missing
RegisterForms ==
    {[email |-> e, name |-> n, password |-> p] : e \in Emails, n \in Names, p \in Passwords}
    \cup {[email |-> e, name |-> n] : e \in Emails, n \in Names}

\* The forms a client can post to /login: any registration data, another
\* password, and an address that is none; the message field is prefilled and
\* can be cleared
LoginForms ==
    {[email |-> e, password |-> p] : e \in Emails, p \in Passwords \cup {"hunter2"}}
    \cup {[email |-> "bob", password |-> p] : p \in {"secret"}}
    \cup {[email |-> e, password |-> p, message |-> ""] : e \in Emails, p \in {"secret"}}

\* The ids a request can name: those of the stored books and one that is not
BookIds(bs) == 1..(Len(bs) + 1)

\* The form of POST /edit and the query string of GET /edit
EditParams(bs) ==
    {[id |-> i, rating |-> r] : i \in BookIds(bs), r \in RatingInputs}
    \cup {[id |-> i] : i \in BookIds(bs)}
    \cup {[rating |-> r] : r \in RatingInputs}

\* The query string of PATCH /edit-uri/<book_id>
EditUriArgs == {[new_rating |-> r] : r \in RatingInputs} \cup {<<>>}

---------------------------------------------------------------------------
(* The state machine *)

\* A handler's result becomes the state; a successful registration records the
\* plaintext it was given
Apply(c, r, password) ==
    /\ books' = r.books
    /\ users' = r.users
    /\ session' = [session EXCEPT ![c] = r.sid]
    /\ resp' = r.resp
    /\ plain' = IF Len(r.users) > Len(users) THEN Append(plain, password) ELSE plain

Books(c) == Apply(c, books_page(books, users, session[c], c), "")

Register(c) ==
    \/ Apply(c, register_page(books, users, session[c], c, "GET", <<>>, ""), "")
    \/ \E form \in RegisterForms, salt \in Salts :
           Apply(c, register_page(books, users, session[c], c, "POST", form, salt),
                 FieldData(form, "password", ""))

Edit(c) ==
    \/ \E params \in {[id |-> i] : i \in BookIds(books)} \cup {<<>>} :
           Apply(c, edit_page(books, users, session[c], c, "GET", params), "")
    \/ \E params \in EditParams(books) :
           Apply(c, edit_page(books, users, session[c], c, "POST", params), "")

Login(c) ==
    \/ Apply(c, login_page(books, users, session[c], c, "GET", <<>>), "")
    \/ \E form \in LoginForms :
           Apply(c, login_page(books, users, session[c], c, "POST", form), "")

Logout(c) == Apply(c, logout(books, users, session[c], c), "")

Query(c) == Apply(c, query_url(books, users, session[c], c), "")

EditUri(c) ==
    \E book_id \in BookIds(books), args \in EditUriArgs :
        Apply(c, edit_api_uri(books, users, session[c], c, book_id, args), "")

\* The catalog of the accounts specification: two books an administrator inserted
SampleCatalog ==
    <<BookRow(1, Zeta, selected_author, SampleRating), BookRow(2, Alpha, "Other", SampleRating)>>

\* A fresh database holding the sample catalog, no user, and clients without a session
Init ==
    /\ books = SampleCatalog
    /\ users = <<>>
    /\ session = [c \in Clients |-> Anonymous]
    /\ resp = NoResponse
    /\ plain = <<>>

Next ==
    \E c \in Clients :
        \/ Books(c)
        \/ Register(c)
        \/ Edit(c)
        \/ Login(c)
        \/ Logout(c)
        \/ Query(c)
        \/ EditUri(c)

Spec == Init /\ [][Next]_vars

\* Any catalog, and the two handlers that only read it
InitCatalog ==
    /\ books \in Catalogs(MaxBooks)
    /\ users = <<>>
    /\ session = [c \in Clients |-> Anonymous]
    /\ resp = NoResponse
    /\ plain = <<>>

NextCatalog ==
    \E c \in Clients :
        \/ Books(c)
        \/ Query(c)

SpecCatalog == InitCatalog /\ [][NextCatalog]_vars

---------------------------------------------------------------------------
(* Properties *)

\* The request of this step came from client c and was handled by op
Served(c, op) == resp'.op = op /\ resp'.client = c

\* A response of the 2xx class
IsSuccess(status) == status \in 200..299

\* The response reports a rating edit that succeeded, through either variant
EditSucceeded(r) ==
    \/ r.op = "edit" /\ r.method = "POST" /\ r.status = 302 /\ r.view = "redirect:/books"
    \/ r.op = "edit_api_uri" /\ r.status = 200

\* C1: a request to /edit, GET or POST, from a client without a session is
\* answered 401 and leaves every book as it was.
C1_EditNeedsSession ==
    [][\A c \in Clients :
         (Served(c, "edit") /\ session[c] = Anonymous)
            => (resp'.status = 401 /\ books' = books)]_vars

C1_Witness ==
    /\ resp.op = "edit" /\ resp.method = "POST" /\ resp.status = 401
    /\ session[resp.client] = Anonymous
    /\ users # <<>>

\* C4: PATCH /edit-uri/{book_id} for an id no stored book has is answered with a
\* non-2xx status and the error body, and the book table is as it was: no row
\* added, no rating changed.
C4_UnknownIdChangesNothing ==
    [][(resp'.op = "edit_api_uri" /\ ~HasRow(books, resp'.req.bookId))
          => /\ ~IsSuccess(resp'.status)
             /\ resp'.view = "json:error"
             /\ books' = books]_vars

C4_Witness ==
    /\ resp.op = "edit_api_uri" /\ resp.status = 404
    /\ ~HasRow(books, resp.req.bookId)

\* C5: a step that reports a successful edit of a book, through /edit or through
\* /edit-uri, leaves that book with the rating it submitted; every other step
\* leaves the book's rating as it was, so the rating is read back until the next
\* successful edit of the same book; and GET /edit returns the stored row.
C5_EditThenRead ==
    [][/\ \A i \in 1..Len(books) :
            IF EditSucceeded(resp') /\ resp'.req.bookId = i
            THEN books'[i].rating = FloatLiterals[resp'.req.rating]
            ELSE books'[i].rating = books[i].rating
       /\ Len(books') = Len(books)
       /\ (resp'.op = "edit" /\ resp'.method = "GET" /\ resp'.status = 200)
             => resp'.data = <<books'[resp'.req.bookId]>>]_vars

C5_Witness ==
    /\ EditSucceeded(resp)
    /\ resp.op = "edit"
    /\ books[resp.req.bookId].rating = 25
    /\ \E i \in 1..Len(books) : books[i].rating = 93

\* The passwords a client can try against a stored hash
Guesses == Passwords \cup {"hunter2", ""}

\* C6: for every stored user the password column is not the plaintext given at
\* that user's registration, and check_password_hash accepts, among the
\* passwords a client can try, the original plaintext and no other.
C6_PasswordIsHashed ==
    \A i \in 1..Len(users) :
        /\ users[i].password # <<plain[i]>>
        /\ \A p \in Guesses : check_password_hash(users[i].password, p) <=> (p = plain[i])

C6_Witness ==
    /\ Len(users) = 2
    /\ plain[1] = plain[2]
    /\ users[1].password # users[2].password

\* The registration POST of this step carries all three fields and an email that
\* a stored user has
DuplicateRegistration(c) ==
    /\ Served(c, "register") /\ resp'.method = "POST"
    /\ resp'.req.password # PyNone
    /\ \E i \in 1..Len(users) : users[i].email = resp'.req.email

\* C7: no two stored users share an email; and a registration POST whose email is
\* that of a stored user fails with the store's constraint violation, leaving
\* the users table and the requester's session (every session) as they were.
C7_DuplicateEmailRejected ==
    /\ [](\A i, j \in 1..Len(users) : (users[i].email = users[j].email) => (i = j))
    /\ [][\A c \in Clients :
            DuplicateRegistration(c)
               => /\ resp'.view = "IntegrityError"
                  /\ ~IsSuccess(resp'.status) /\ resp'.status # 302
                  /\ users' = users
                  /\ session' = session]_vars

C7_Witness ==
    /\ resp.op = "register" /\ resp.view = "IntegrityError"
    /\ \E i \in 1..Len(users) : users[i].email = resp.req.email /\ plain[i] # resp.req.password
    /\ session[resp.client] = Anonymous

\* The place of each title in ascending lexical order
TitleRank(t) ==
    CASE t = Al -> 1
      [] t = Alpha -> 2
      [] t = Mono -> 3
      [] t = Zeta -> 4

\* C8: GET /books returns every stored book exactly once, in ascending lexical
\* order of title.
C8_ListingSorted ==
    (resp.op = "books") =>
        /\ Len(resp.data) = Len(books)
        /\ \A i \in 1..Len(books) : \E j \in 1..Len(resp.data) : resp.data[j] = books[i]
        /\ \A i, j \in 1..Len(resp.data) :
              (i < j) => TitleRank(resp.data[i].title) < TitleRank(resp.data[j].title)

\* The example of the specification: Zeta, Alpha, Mono are listed Alpha, Mono, Zeta
C8_Witness ==
    /\ resp.op = "books"
    /\ Len(books) = 3
    /\ books[1].title = Zeta /\ books[2].title = Alpha /\ books[3].title = Mono
    /\ resp.data[1].title = Alpha /\ resp.data[2].title = Mono /\ resp.data[3].title = Zeta

\* C10: GET /logout is served only to a client with a session and leaves it
\* anonymous; a client that is anonymous is refused /edit and /logout; and an
\* anonymous client gets a session only through a login or a registration of
\* its own that succeeds.
C10_LogoutEndsSession ==
    [][\A c \in Clients :
         /\ (Served(c, "logout") /\ IsSuccess(resp'.status))
               => (session[c] # Anonymous /\ session'[c] = Anonymous)
         /\ ((Served(c, "logout") \/ Served(c, "edit")) /\ session[c] = Anonymous)
               => (resp'.status = 401 /\ session'[c] = Anonymous /\ books' = books)
         /\ (session[c] = Anonymous /\ session'[c] # Anonymous)
               => \/ Served(c, "login") /\ resp'.view = "success.html"
                  \/ Served(c, "register") /\ resp'.status = 302]_vars

C10_Witness ==
    /\ resp.op = "logout" /\ resp.status = 200
    /\ session[resp.client] = Anonymous
    /\ users # <<>>

\* C2 as claimed: a login POST with a stored user's email and the password of
\* that user's registration (and the message field not cleared) gives the
\* requester a session for that user and the success page; with that email and
\* another password it leaves the session as it was and answers with the login
\* form and, the password being one the form accepts, the "Password incorrect"
\* flash.
C2_LoginClaim ==
    [][\A c \in Clients : \A u \in 1..Len(users) :
         (/\ Served(c, "login") /\ resp'.method = "POST"
          /\ resp'.req.message # ""
          /\ resp'.req.email = users[u].email)
            => IF resp'.req.password = plain[u]
               THEN session'[c] = u /\ resp'.view = "success.html"
               ELSE /\ session'[c] = session[c]
                    /\ resp'.view = "login.html"
                    /\ (Len(resp'.req.password) >= 3)
                          => resp'.flash = "Password incorrect, please try again."]_vars

\* C3 as claimed: GET /query answers 404 with the error body when no book is by
\* the queried author, and 200 only when one is; never 200 with an empty list.
C3_QueryClaim ==
    (resp.op = "query") =>
        LET matches == {i \in 1..Len(books) : books[i].author = selected_author}
        IN /\ (matches = {}) => (resp.status = 404 /\ resp.view = "json:error")
           /\ (resp.status = 200) => (matches # {} /\ resp.data # <<>>)

\* C9 as claimed: a registration POST without a non-empty email, name or
\* password is refused with an error of the request and writes nothing.
C9_ValidationClaim ==
    [][(/\ resp'.op = "register" /\ resp'.method = "POST"
        /\ \/ resp'.req.email \in {"", PyNone}
           \/ resp'.req.password \in {"", PyNone})
          => (resp'.status \in 400..499 /\ users' = users /\ books' = books)]_vars

====
